---- MODULE Spec2Model ----
(***************************************************************************)
(* LEXICON brief generation: the React client (services/api generateBrief  *)
(* and App.handleGenerateBrief), the Bootstrap client (app.js) and the     *)
(* server pipeline that both clients listen to over Socket.IO.             *)
(***************************************************************************)
EXTENDS Integers, Sequences, FiniteSets, TLC

\* ------------------------------------------------------------------ bounds
\* Number of POST /api/generate-brief requests the clients may issue.
MaxCases == 2
\* Number of files a Case may carry.
MaxFiles == 1
\* Largest number of citations a stubbed researcher returns.
MaxCitations == 2
\* Largest reading of the clock (Date.now()).
MaxClock == 2
\* Largest number of clicks on the tray menu.
MaxClicks == 2
\* Number of different contents a component of /data can have.
MaxVersion == 2
\* Number of launches of LEXICON.bat.
MaxLaunches == 2

Cases == 1..MaxCases
ReactClients == {"r1", "r2"}

\* ------------------------------------------------------------ value domains
\* BriefGenerationStatus['stage'], in declaration order.
StageOrder ==
    << "uploading", "anonymization", "strategic_analysis", "legal_research",
       "scientific_research", "brief_writing", "final_review", "completed", "error" >>

StageIndex(stage) == CHOOSE i \in 1..Len(StageOrder) : StageOrder[i] = stage

\* useState<BriefGenerationStatus | null>(null): the null status.
NoStatus == [stage |-> "null", progress |-> 0, currentAgent |-> "", message |-> ""]

MkStatus(stage, progress, agent, message) ==
    [stage |-> stage, progress |-> progress, currentAgent |-> agent, message |-> message]

\* useState<string | null>(null): the null brief.
NoBrief == <<>>

NoResult == [brief |-> NoBrief, wordCount |-> 0, citations |-> 0]

NoError == [name |-> "", code |-> "", message |-> "", statusCode |-> 0]

\* ------------------------------------------------------------- errorHandler
ErrorCodes ==
    { "INVALID_API_KEY", "MISSING_API_KEY", "EXPIRED_API_KEY",
      "INVALID_DOCUMENT_FORMAT", "DOCUMENT_TOO_LARGE", "DOCUMENT_PROCESSING_FAILED",
      "NO_DOCUMENTS_PROVIDED", "INVALID_BRIEF_TYPE", "INVALID_JURISDICTION",
      "GENERATION_FAILED", "GENERATION_TIMEOUT", "NETWORK_ERROR", "SERVER_ERROR",
      "SERVICE_UNAVAILABLE", "MISSING_REQUIRED_FIELD", "INVALID_INPUT",
      "RATE_LIMIT_EXCEEDED", "UNKNOWN_ERROR" }

\* The keys of ErrorMessages.
ErrorMessages == ErrorCodes

\* Message texts for which String.includes('API key') / includes('timeout') hold.
ApiKeyTexts == {"Invalid API key"}
TimeoutTexts == {"timeout of 0ms exceeded"}

\* a || b on strings.
OrElse(a, b) == IF a = "" THEN b ELSE a

\* Keys ErrorMessages[...] also answers for, being a plain object: the properties
\* it inherits from Object.prototype. What comes back has no `code`.
InheritedKeys == {"constructor"}

\* An error object as parseApiError reads it: error.response (status, data.error_code,
\* data.message), error.code, error.message, and navigator.onLine. `dataNull` says
\* that response.data is null or undefined (a body of `null`, or none at all).
MkError(hasResponse, status, errorCode, dataMessage, code, message, onLine) ==
    [hasResponse |-> hasResponse, status |-> status, error_code |-> errorCode,
     dataMessage |-> dataMessage, code |-> code, message |-> message, onLine |-> onLine,
     dataNull |-> FALSE]

ApiError(code, message, statusCode) ==
    [name |-> "ApiError", code |-> code, message |-> message, statusCode |-> statusCode]

\* parseApiError does not return: reading a property of null throws.
TypeError(message) ==
    [name |-> "TypeError", code |-> "undefined", message |-> message, statusCode |-> 0]

parseApiError(error) ==
    IF error.hasResponse THEN
        LET error_code == IF error.dataNull THEN "" ELSE error.error_code
            dataMessage == IF error.dataNull THEN "" ELSE error.dataMessage
        IN  IF error_code # "" /\ error_code \in ErrorMessages THEN
                ApiError(error_code, OrElse(dataMessage, error.message), error.status)
            ELSE IF error_code # "" /\ error_code \in InheritedKeys THEN
                ApiError("undefined", OrElse(dataMessage, error.message), error.status)
            ELSE CASE error.status = 400 ->
                        IF dataMessage \in ApiKeyTexts
                        THEN ApiError("INVALID_API_KEY", dataMessage, 400)
                        ELSE IF error.dataNull
                        THEN TypeError("Cannot read properties of null (reading 'message')")
                        ELSE ApiError("INVALID_INPUT", OrElse(dataMessage, "Bad request"), 400)
                   [] error.status = 401 -> ApiError("INVALID_API_KEY", "Authentication failed", 401)
                   [] error.status = 403 -> ApiError("EXPIRED_API_KEY", "Access forbidden", 403)
                   [] error.status = 413 -> ApiError("DOCUMENT_TOO_LARGE", "Payload too large", 413)
                   [] error.status = 429 -> ApiError("RATE_LIMIT_EXCEEDED", "Rate limit exceeded", 429)
                   [] error.status \in {500, 502, 503} ->
                        ApiError("SERVER_ERROR", OrElse(dataMessage, "Server error"), error.status)
                   [] error.status = 504 -> ApiError("GENERATION_TIMEOUT", "Request timeout", 504)
                   [] OTHER ->
                        ApiError("UNKNOWN_ERROR", OrElse(dataMessage, error.message), error.status)
    ELSE IF error.code = "ECONNABORTED" \/ error.message \in TimeoutTexts THEN
        ApiError("GENERATION_TIMEOUT", "Request timed out", 0)
    ELSE IF error.code = "ERR_NETWORK" \/ ~error.onLine THEN
        ApiError("NETWORK_ERROR", "Network connection lost", 0)
    ELSE
        ApiError("UNKNOWN_ERROR", OrElse(error.message, "Unknown error occurred"), 0)

\* ------------------------------------------------------------------- state
VARIABLES
    srvProgressEvent,   \* name under which the server emits progress events
    nextCase,           \* number of the next POST /api/generate-brief
    call,               \* per request: the generateBrief closure (socket, promise, observer) and its POST
    noopRun,            \* per request: the same closure run with a no-op observer
    app,                \* per React client: the App component's state
    page,               \* the Bootstrap page (app.js globals and the panels it shows)
    srv,                \* per task: the server pipeline
    lastCall,           \* the handler invocation made by the last step, with its inputs
    sim,                \* a run of simulateGenerateBrief
    twin,               \* two runs of generateBrief against the same stubbed backend
    launcher,           \* the Electron launcher (launcher/main.js)
    ps1,                \* launches of start-lexicon.ps1 and the named mutex
    disk,               \* /data, the archive of backup.sh and a run of restore.sh
    bat,                \* a run of RUN-COMPREHENSIVE-TEST.bat and the files it touches
    hist,               \* briefHistory of the Bootstrap page and its copy in localStorage
    parse,              \* an error object handed to parseApiError and what came back
    tracker             \* a status handed to ProgressTracker and the rows it renders

\* The web clients and their backend.
web == << srvProgressEvent, nextCase, call, noopRun, app, page, srv, lastCall, sim >>

\* The programs around them.
ext == << twin, launcher, ps1, disk, bat, hist, parse, tracker >>

\* The test script and the functions examined on their own.
tools == << bat, hist, parse, tracker >>

\* The launcher, the scripts and the twin runs.
progs == << twin, launcher, ps1, disk >>

vars == << srvProgressEvent, nextCase, call, noopRun, app, page, srv, lastCall, sim,
           twin, launcher, ps1, disk, bat, hist, parse, tracker >>

NoCall ==
    [client |-> "", http |-> "none", handled |-> FALSE, socket |-> "none",
     promise |-> "none", result |-> NoResult, error |-> NoError, observer |-> "ok"]

NoApp == [generationStatus |-> NoStatus, generatedBrief |-> NoBrief]

NoTask == [state |-> "none", stage |-> 0, legal |-> "idle", sci |-> "idle", error |-> ""]

NoPage ==
    [socket |-> "connecting", currentBriefTask |-> 0, progressShown |-> FALSE,
     resultShown |-> FALSE, progressStage |-> "", progressWidth |-> 0,
     briefPreview |-> NoBrief]

NoLast ==
    [handler |-> "", client |-> "", expertName |-> "", files |-> 0, briefType |-> "",
     strategy |-> ""]

NoSim ==
    [pc |-> "idle", briefType |-> "", jurisdiction |-> "", files |-> 0, observer |-> "ok",
     i |-> 0, reported |-> << >>,
     result |-> [brief |-> NoBrief, citations |-> 0, processingTime |-> 0]]

NoRun ==
    [pc |-> "idle", i |-> 0, reported |-> << >>,
     result |-> [brief |-> NoBrief, wordCount |-> 0, citations |-> 0, processingTime |-> 0],
     error |-> NoError]

NoStub ==
    [success |-> TRUE, brief_excerpt |-> NoBrief, full_result_length |-> 0, error |-> "",
     legalCitations |-> 0, sciCitations |-> 0]

NoTwin == [stub |-> NoStub, now |-> 0, run |-> << NoRun, NoRun >>]

\* The launcher before app.whenReady: the store defaults and the module's globals.
NoLauncher ==
    [pc |-> "off", firstRun |-> TRUE, setup |-> "none", docker |-> "down",
     attempts |-> 0, checks |-> 0, lastCheck |-> "none", dockerResult |-> "none",
     deployCode |-> "none", deployReady |-> FALSE, tray |-> FALSE, readyShown |-> FALSE,
     browserOpened |-> FALSE, errorBox |-> "", services |-> "down", choice |-> "none",
     clicks |-> 0, exitStops |-> 0, exitDone |-> 0, menuStops |-> 0,
     stopsStarted |-> 0, quit |-> "no"]

\* A launch that has not happened yet.
NoLaunch == [pc |-> "off", passed |-> FALSE, startedDocker |-> FALSE,
             startedServices |-> FALSE]

\* No launch yet: LEXICON_MUTEX is free (owner 0).
NoPs1 == [mutex |-> 0, inst |-> [i \in 1..MaxLaunches |-> NoLaunch]]

\* A state of /data: per component its content, 0 when the component is absent.
NoData ==
    [chromadb |-> 0, dump |-> 0, aof |-> 0, uploads |-> 0, briefs |-> 0, anonymized |-> 0]

\* /data and /backups before any script ran: `archive` is what the backup archive
\* holds per component (0: not in the archive), `saved` the data state it was made of.
NoDisk == [pc |-> "off", data |-> NoData, archived |-> FALSE, archive |-> NoData,
           saved |-> NoData]

\* The test script has not been started. The files .env.test, .env and .env.backup
\* hold a content or are "absent"; `env0` is what .env was when the run began.
NoBat ==
    [pc |-> "off", test |-> "absent", env |-> "absent", backup |-> "absent",
     env0 |-> "absent", edgeScript |-> FALSE, perfScript |-> FALSE,
     switched |-> FALSE, EXIT_CODE |-> "undefined", WAIT_TIME |-> 0,
     executed |-> {}, succeeded |-> {}, failed |-> {},
     console |-> {}, log |-> {}, overall |-> "none", exit |-> "none"]

\* The Bootstrap page has not been loaded. `storage` is the localStorage item
\* lexicon_history; `stored0` is the history it held when the model started and
\* `added` the entries addToHistory was given since, oldest first.
NoHist ==
    [pc |-> "off", storage |-> [present |-> FALSE, value |-> << >>],
     briefHistory |-> << >>, stored0 |-> << >>, added |-> << >>, now |-> 0]

\* parseApiError has been handed nothing.
NoParse ==
    [pc |-> "off", error |-> MkError(FALSE, 0, "", "", "", "", TRUE),
     result |-> [name |-> "none", code |-> "", message |-> "", statusCode |-> 0]]

\* ProgressTracker has not been rendered: no status, no row marked.
NoTracker ==
    [pc |-> "off", stage |-> "", progress |-> 0, currentAgent |-> "",
     currentStageIndex |-> 0 - 1, isActive |-> {}, isCompleted |-> {}, width |-> 0]

ProgsIdle ==
    /\ twin = NoTwin
    /\ launcher = NoLauncher
    /\ ps1 = NoPs1
    /\ disk = NoDisk

ToolsIdle ==
    /\ bat = NoBat
    /\ hist = NoHist
    /\ parse = NoParse
    /\ tracker = NoTracker

\* The programs around the web clients are not running.
ExtIdle ==
    /\ twin = NoTwin
    /\ launcher = NoLauncher
    /\ ps1 = NoPs1
    /\ disk = NoDisk
    /\ ToolsIdle

\* ------------------------------------------------- server pipeline (events)
\* The stages the server reports, by the names the React client's progressMap knows.
SrvStages ==
    << [stage |-> "Uploading documents", progress |-> 20, agent |-> ""],
       [stage |-> "Strategic analysis", progress |-> 35, agent |-> "Claude Opus 4"],
       [stage |-> "Legal research", progress |-> 50, agent |-> "O3 Pro Deep Research"],
       [stage |-> "Scientific research", progress |-> 65, agent |-> "GPT-4.1"],
       [stage |-> "Writing brief", progress |-> 80, agent |-> "GPT-4.5"],
       [stage |-> "Finalizing", progress |-> 95, agent |-> "Gemini 2.5 Pro"] >>

ProgressData(t, i) ==
    [task_id |-> t, stage |-> SrvStages[i].stage, progress |-> SrvStages[i].progress,
     agent |-> SrvStages[i].agent]

CompleteData(t, success, err) ==
    [task_id |-> t, success |-> success,
     brief_excerpt |-> IF success THEN << "excerpt", t >> ELSE NoBrief,
     full_result_length |-> IF success THEN 1200 + t ELSE 0,
     error |-> err]

\* ------------------------------------------------ services/api generateBrief
progressMap(stage) ==
    CASE stage = "Uploading documents" -> "uploading"
      [] stage = "Strategic analysis" -> "strategic_analysis"
      [] stage = "Legal research" -> "legal_research"
      [] stage = "Scientific research" -> "scientific_research"
      [] stage = "Writing brief" -> "brief_writing"
      [] stage = "Finalizing" -> "final_review"
      [] OTHER -> ""

\* Promise semantics: only the first resolve/reject of a promise has an effect.
resolve(cl, value) ==
    IF cl.promise = "pending" THEN [cl EXCEPT !.promise = "resolved", !.result = value] ELSE cl

reject(cl, err) ==
    IF cl.promise = "pending" THEN [cl EXCEPT !.promise = "rejected", !.error = err] ELSE cl

disconnect(cl) == [cl EXCEPT !.socket = "closed"]

\* socket.on('progress_update'): the status handed to onProgress.
progress_update(data) ==
    MkStatus(OrElse(progressMap(data.stage), "uploading"), data.progress,
             OrElse(data.agent, "System"), data.stage)

\* The response object built on a successful brief_complete; `now` is Date.now().
BriefResponse(data, now) ==
    [brief |-> IF data.brief_excerpt # NoBrief THEN data.brief_excerpt
               ELSE << "Brief generated successfully" >>,
     wordCount |-> IF data.full_result_length # 0 THEN data.full_result_length ELSE 1000,
     citations |-> 10,
     processingTime |-> now]

\* socket.on('brief_complete'); the clients' runs keep the response without its
\* processingTime.
brief_complete(cl, data) ==
    IF data.success
    THEN resolve(disconnect(cl),
                 [brief |-> BriefResponse(data, 0).brief,
                  wordCount |-> BriefResponse(data, 0).wordCount,
                  citations |-> BriefResponse(data, 0).citations])
    ELSE reject(disconnect(cl),
                parseApiError(MkError(TRUE, 500, "", data.error, "", "", TRUE)))

\* .catch((error) => ...) of the start request.
catch(cl, error) == reject(disconnect(cl), parseApiError(error))

\* The status the .then handler reports on a successful start.
ProcessingRequest == MkStatus("uploading", 10, "System", "Processing request...")

\* .then((response) => ...) of the start request; an exception of onProgress or the
\* thrown Error lands in .catch.
then(cl, success, dataError, onLine) ==
    IF success
    THEN IF cl.observer = "throws"
         THEN catch(cl, MkError(FALSE, 0, "", "", "", "observer failed", onLine))
         ELSE cl
    ELSE catch(cl, MkError(FALSE, 0, "", "", "",
                           OrElse(dataError, "Failed to start generation"), onLine))

\* ------------------------------------------------------------------ App.tsx
\* handleGenerateBrief after `await generateBrief(...)`: lines 52-60 or the catch block.
Continue(a, cl) ==
    IF cl.promise = "resolved"
    THEN [a EXCEPT !.generatedBrief = cl.result.brief,
                   !.generationStatus =
                       MkStatus("completed", 100, "System", "Brief generation complete!")]
    ELSE [a EXCEPT !.generationStatus =
                       MkStatus("error", 0, "System",
                                "Error generating brief. Please try again.")]

\* The request of client c whose socket is connected (at most one: a new request
\* starts only after the previous promise settled, which closes its socket).
LiveCalls(c) == {k \in Cases : call[k].client = c /\ call[k].socket = "connected"}

\* The App state of client c after request k's closure went from cl to ncl and
\* reported status st to its observer (NoStatus: no report).
AppAfter(c, cl, ncl, st) ==
    LET a1 == IF st # NoStatus /\ cl.observer = "ok"
              THEN [app[c] EXCEPT !.generationStatus = st] ELSE app[c]
    IN IF cl.promise = "pending" /\ ncl.promise # "pending" THEN Continue(a1, ncl) ELSE a1

\* ------------------------------------------------------------------ app.js
\* updateBriefProgress(stage, progress).
updateBriefProgress(p, stage, progress) ==
    [p EXCEPT !.progressStage = stage, !.progressWidth = progress]

\* handleBriefComplete(data).
handleBriefComplete(p, data) ==
    IF data.success
    THEN [p EXCEPT !.progressShown = FALSE, !.resultShown = TRUE,
                   !.briefPreview = data.brief_excerpt]
    ELSE [p EXCEPT !.progressShown = FALSE]

\* socket.on('brief_progress') of setupSocketListeners.
brief_progress(p, data) ==
    IF data.task_id = p.currentBriefTask
    THEN updateBriefProgress(p, data.stage, data.progress) ELSE p

\* socket.on('brief_complete') of setupSocketListeners.
page_brief_complete(p, data) ==
    IF data.task_id = p.currentBriefTask THEN handleBriefComplete(p, data) ELSE p

\* ------------------------------------------------------- event delivery
\* The server emits to every connected socket; a socket that is not connected
\* misses the event.
EmitProgress(data) ==
    /\ app' = [c \in ReactClients |->
                IF srvProgressEvent = "progress_update" /\ LiveCalls(c) # {}
                THEN LET k == CHOOSE k \in LiveCalls(c) : TRUE
                     IN AppAfter(c, call[k], call[k], progress_update(data))
                ELSE app[c]]
    /\ page' = IF srvProgressEvent = "brief_progress" /\ page.socket = "connected"
               THEN brief_progress(page, data) ELSE page
    /\ UNCHANGED << call, noopRun >>

EmitComplete(data) ==
    /\ call' = [k \in Cases |->
                 IF call[k].socket = "connected" THEN brief_complete(call[k], data)
                 ELSE call[k]]
    /\ noopRun' = [k \in Cases |->
                    IF noopRun[k].socket = "connected" THEN brief_complete(noopRun[k], data)
                    ELSE noopRun[k]]
    /\ app' = [c \in ReactClients |->
                IF LiveCalls(c) # {}
                THEN LET k == CHOOSE k \in LiveCalls(c) : TRUE
                     IN AppAfter(c, call[k], brief_complete(call[k], data), NoStatus)
                ELSE app[c]]
    /\ page' = IF page.socket = "connected" THEN page_brief_complete(page, data) ELSE page

\* ------------------------------------------------------------ user inputs
BriefTypeInputs == {"", "daubert_motion"}
ExpertInputs == {"", "Dr. A"}
StrategyInputs == {"", "challenge"}
MotionTypeInputs == {"", "Motion in Limine to Exclude Expert"}
Observers == {"ok", "throws"}

Called(handler, client, expertName, files, briefType, strategy) ==
    [handler |-> handler, client |-> client, expertName |-> expertName, files |-> files,
     briefType |-> briefType, strategy |-> strategy]

\* --------------------------------------------------------- React client
\* The check of line 33 without its expert-name test.
ValidCaseIgnoresExpert(briefType, files, expertName) ==
    ~(briefType = "" \/ files = 0)

\* App.tsx line 33, negated: the Case passes the check.
ValidCase(briefType, files, expertName) ==
    ~(briefType = "" \/ files = 0 \/ expertName = "")

\* generateBrief up to the return of the promise: io(), the handlers registered,
\* the start request posted.
generateBrief(c, observer) ==
    [NoCall EXCEPT !.client = c, !.http = "sent", !.socket = "connecting",
                   !.promise = "pending", !.observer = observer]

\* Click on Generate Brief (rendered while generationStatus is null).
handleGenerateBrief(c) ==
    /\ app[c].generationStatus = NoStatus
    /\ \E briefType \in BriefTypeInputs, files \in 0..MaxFiles,
          expertName \in ExpertInputs, observer \in Observers :
        /\ lastCall' = Called("handleGenerateBrief", c, expertName, files, briefType, "")
        /\ IF ~ValidCase(briefType, files, expertName)
           THEN UNCHANGED << ext, sim, srvProgressEvent, nextCase, call, noopRun, app, page, srv >>
           ELSE /\ nextCase <= MaxCases
                /\ app' = [app EXCEPT ![c].generationStatus =
                              MkStatus("uploading", 0, "System", "Uploading case files...")]
                /\ call' = [call EXCEPT ![nextCase] = generateBrief(c, observer)]
                /\ noopRun' = [noopRun EXCEPT ![nextCase] = generateBrief(c, "ok")]
                /\ nextCase' = nextCase + 1
                /\ UNCHANGED << ext, sim, srvProgressEvent, page, srv >>

\* Click on the reset button of GeneratedBrief (rendered while a brief is shown).
handleReset(c) ==
    /\ app[c].generationStatus # NoStatus
    /\ app[c].generatedBrief # NoBrief
    /\ app' = [app EXCEPT ![c] = NoApp]
    /\ lastCall' = NoLast
    /\ UNCHANGED << ext, sim, srvProgressEvent, nextCase, call, noopRun, page, srv >>

\* The socket of request k connects.
SocketConnect(k) ==
    /\ call[k].socket = "connecting" \/ noopRun[k].socket = "connecting"
    /\ call' = [call EXCEPT ![k].socket = IF @ = "connecting" THEN "connected" ELSE @]
    /\ noopRun' = [noopRun EXCEPT ![k].socket = IF @ = "connecting" THEN "connected" ELSE @]
    /\ lastCall' = NoLast
    /\ UNCHANGED << ext, sim, srvProgressEvent, nextCase, app, page, srv >>

\* The start request's response (or failure) reaches the React client.
HttpResponse(k) ==
    /\ call[k].client \in ReactClients
    /\ call[k].http \in {"ok", "refused", "status500", "neterr"}
    /\ ~call[k].handled
    /\ LET h == call[k].http
            onLine == h # "neterr"
            Settle(cl) ==
                CASE h = "ok" -> then(cl, TRUE, "", onLine)
                  [] h = "refused" -> then(cl, FALSE, "Invalid request", onLine)
                  [] h = "status500" ->
                        catch(cl, MkError(TRUE, 500, "", "Internal error", "ERR_BAD_RESPONSE",
                                          "Request failed with status code 500", onLine))
                  [] OTHER ->
                        catch(cl, MkError(FALSE, 0, "", "", "ERR_NETWORK", "Network Error",
                                          onLine))
            ncl == [Settle(call[k]) EXCEPT !.handled = TRUE]
       IN /\ call' = [call EXCEPT ![k] = ncl]
          /\ noopRun' = [noopRun EXCEPT ![k] = Settle(noopRun[k])]
          /\ app' = [app EXCEPT ![call[k].client] =
                        AppAfter(call[k].client, call[k], ncl,
                                 IF h = "ok" THEN ProcessingRequest ELSE NoStatus)]
    /\ lastCall' = NoLast
    /\ UNCHANGED << ext, sim, srvProgressEvent, nextCase, page, srv >>

\* ------------------------------------------------------ Bootstrap client
\* app.js line 288, negated.
ValidForm(expertName, strategy, motionType) ==
    ~(expertName = "" \/ strategy = "" \/ motionType = "")

\* Submit of the generate form; `files` is the number of documents uploaded to the
\* corpus before, which the form does not carry and the handler does not read.
handleGenerate ==
    \E expertName \in ExpertInputs, strategy \in StrategyInputs,
       motionType \in MotionTypeInputs, files \in 0..MaxFiles :
        /\ lastCall' = Called("handleGenerate", "b", expertName, files, motionType, strategy)
        /\ IF ~ValidForm(expertName, strategy, motionType)
           THEN UNCHANGED << ext, sim, srvProgressEvent, nextCase, call, noopRun, app, page, srv >>
           ELSE /\ nextCase <= MaxCases
                /\ page' = updateBriefProgress(
                               [page EXCEPT !.resultShown = FALSE, !.progressShown = TRUE],
                               "Initializing", 0)
                /\ call' = [call EXCEPT ![nextCase] =
                               [NoCall EXCEPT !.client = "b", !.http = "sent"]]
                /\ nextCase' = nextCase + 1
                /\ UNCHANGED << ext, sim, srvProgressEvent, noopRun, app, srv >>

\* The page's socket connects.
PageSocketConnect ==
    /\ page.socket = "connecting"
    /\ page' = [page EXCEPT !.socket = "connected"]
    /\ lastCall' = NoLast
    /\ UNCHANGED << ext, sim, srvProgressEvent, nextCase, call, noopRun, app, srv >>

\* The fetch of handleGenerate returns (or fails).
FetchResponse(k) ==
    /\ call[k].client = "b"
    /\ call[k].http \in {"ok", "refused", "status500", "neterr"}
    /\ ~call[k].handled
    /\ page' = CASE call[k].http = "ok" -> [page EXCEPT !.currentBriefTask = k]
                 [] OTHER -> [page EXCEPT !.progressShown = FALSE]
    /\ call' = [call EXCEPT ![k].handled = TRUE]
    /\ lastCall' = NoLast
    /\ UNCHANGED << ext, sim, srvProgressEvent, nextCase, noopRun, app, srv >>

\* ------------------------------------------------------------------ server
ResearchOutcomes == {"done", "failed", "timeout"}

\* POST /api/generate-brief accepted: the task starts, the response is on its way.
SrvAccept(k) ==
    /\ call[k].http = "sent"
    /\ call' = [call EXCEPT ![k].http = "ok"]
    /\ srv' = [srv EXCEPT ![k] = [NoTask EXCEPT !.state = "running"]]
    /\ lastCall' = NoLast
    /\ UNCHANGED << ext, sim, srvProgressEvent, nextCase, noopRun, app, page >>

\* The request is answered with success: false, or with an HTTP error.
SrvRefuse(k) ==
    /\ call[k].http = "sent"
    /\ \E answer \in {"refused", "status500"} : call' = [call EXCEPT ![k].http = answer]
    /\ lastCall' = NoLast
    /\ UNCHANGED << ext, sim, srvProgressEvent, nextCase, noopRun, app, page, srv >>

\* The request never reaches the server.
NetworkError(k) ==
    /\ call[k].http = "sent"
    /\ call' = [call EXCEPT ![k].http = "neterr"]
    /\ lastCall' = NoLast
    /\ UNCHANGED << ext, sim, srvProgressEvent, nextCase, noopRun, app, page, srv >>

\* Drafting may start: both researchers have returned a result.
CanDraft(task) == task.legal = "done" /\ task.sci = "done"

\* The pipeline enters its next stage and reports it.
SrvStage(t) ==
    /\ srv[t].state = "running"
    /\ srv[t].stage < Len(SrvStages)
    /\ srv[t].stage = 4 => CanDraft(srv[t])
    /\ srv' = [srv EXCEPT ![t].stage = @ + 1,
                          ![t].legal = IF srv[t].stage = 2 THEN "pending" ELSE @,
                          ![t].sci = IF srv[t].stage = 3 THEN "pending" ELSE @]
    /\ EmitProgress(ProgressData(t, srv[t].stage + 1))
    /\ lastCall' = NoLast
    /\ UNCHANGED << ext, sim, srvProgressEvent, nextCase >>

\* A researcher call returns, fails or times out; the pipeline awaits the two calls
\* only once both are issued.
ResearcherReturns(t) ==
    /\ srv[t].state = "running"
    /\ srv[t].stage = 4
    /\ \E outcome \in ResearchOutcomes :
        \/ /\ srv[t].legal = "pending"
           /\ srv' = [srv EXCEPT ![t].legal = outcome]
        \/ /\ srv[t].sci = "pending"
           /\ srv' = [srv EXCEPT ![t].sci = outcome]
    /\ lastCall' = NoLast
    /\ UNCHANGED << ext, sim, srvProgressEvent, nextCase, call, noopRun, app, page >>

\* The stage whose failure ends the task, if any.
FailingStages(task) ==
    (IF task.stage \in {2, 5, 6} THEN {task.stage} ELSE {})
    \cup (IF task.legal \in {"failed", "timeout"} THEN {3} ELSE {})
    \cup (IF task.sci \in {"failed", "timeout"} THEN {4} ELSE {})

\* A stage fails: the task is aborted, the partial research results are discarded
\* and brief_complete reports the failure.
SrvFail(t) ==
    /\ srv[t].state = "running"
    /\ \E i \in FailingStages(srv[t]) :
        /\ srv' = [srv EXCEPT ![t].state = "failed", ![t].error = SrvStages[i].stage,
                              ![t].legal = "discarded", ![t].sci = "discarded"]
        /\ EmitComplete(CompleteData(t, FALSE, SrvStages[i].stage))
    /\ lastCall' = NoLast
    /\ UNCHANGED << ext, sim, srvProgressEvent, nextCase >>

\* The last stage is done: brief_complete delivers the brief.
SrvComplete(t) ==
    /\ srv[t].state = "running"
    /\ srv[t].stage = Len(SrvStages)
    /\ srv' = [srv EXCEPT ![t].state = "complete"]
    /\ EmitComplete(CompleteData(t, TRUE, ""))
    /\ lastCall' = NoLast
    /\ UNCHANGED << ext, sim, srvProgressEvent, nextCase >>

\* ------------------------------------------------------------ specification
\* The Generate Brief button is rendered only under a complete form (App.tsx lines
\* 101, 116, 127): a click on it.
ClickGenerateBrief(c) ==
    /\ handleGenerateBrief(c)
    /\ ValidCase(lastCall'.briefType, lastCall'.files, lastCall'.expertName)

WebInit(progressEvent) ==
    /\ srvProgressEvent = progressEvent
    /\ nextCase = 1
    /\ call = [k \in Cases |-> NoCall]
    /\ noopRun = [k \in Cases |-> NoCall]
    /\ app = [c \in ReactClients |-> NoApp]
    /\ page = NoPage
    /\ srv = [k \in Cases |-> NoTask]
    /\ lastCall = NoLast
    /\ sim = NoSim

InitWith(progressEvent) == WebInit(progressEvent) /\ ExtIdle

Server ==
    \/ \E k \in Cases : SrvAccept(k)
    \/ \E k \in Cases : SrvRefuse(k)
    \/ \E k \in Cases : NetworkError(k)
    \/ \E t \in Cases : SrvStage(t)
    \/ \E t \in Cases : ResearcherReturns(t)
    \/ \E t \in Cases : SrvFail(t)
    \/ \E t \in Cases : SrvComplete(t)

\* The React clients and their backend, which emits progress_update and brief_complete.
Init == InitWith("progress_update")

Next ==
    \/ \E c \in ReactClients : ClickGenerateBrief(c)
    \/ \E c \in ReactClients : handleReset(c)
    \/ \E k \in Cases : SocketConnect(k)
    \/ \E k \in Cases : HttpResponse(k)
    \/ Server

Spec == Init /\ [][Next]_vars

\* The Bootstrap page and the web application, which emits brief_progress and
\* brief_complete.
PageInit == InitWith("brief_progress")

PageNext ==
    \/ handleGenerate
    \/ PageSocketConnect
    \/ \E k \in Cases : FetchResponse(k)
    \/ Server

PageSpec == PageInit /\ [][PageNext]_vars

\* Form submission alone: both clients' submit handlers called under any form
\* state, and the admission of their start requests.
SubmitNext ==
    \/ \E c \in ReactClients : handleGenerateBrief(c)
    \/ handleGenerate
    \/ \E k \in Cases : SrvAccept(k)
    \/ \E k \in Cases : SrvRefuse(k)
    \/ \E k \in Cases : NetworkError(k)

SubmitSpec == Init /\ [][SubmitNext]_vars

\* ------------------------------------------------- simulateGenerateBrief
BriefTypes ==
    {"daubert_motion", "daubert_response", "frye_motion", "frye_response",
     "motion_in_limine"}

Jurisdictions == {"Federal", "State"}

\* The stage list with drafting moved before the scientific research.
stagesDraftEarly ==
    << MkStatus("uploading", 20, "System", "Processing uploaded files..."),
       MkStatus("strategic_analysis", 35, "Claude Opus 4",
                "Analyzing case strategy and identifying key arguments..."),
       MkStatus("legal_research", 50, "O3 Pro Deep Research",
                "Searching for supporting precedents in legal databases..."),
       MkStatus("brief_writing", 80, "GPT-4.5", "Drafting comprehensive legal arguments..."),
       MkStatus("scientific_research", 65, "GPT-4.1",
                "Reviewing medical literature and expert methodologies..."),
       MkStatus("final_review", 95, "Gemini 2.5 Pro",
                "Fact-checking and polishing final brief..."),
       MkStatus("completed", 100, "System", "Brief generation complete!") >>

stages ==
    << MkStatus("uploading", 20, "System", "Processing uploaded files..."),
       MkStatus("strategic_analysis", 35, "Claude Opus 4",
                "Analyzing case strategy and identifying key arguments..."),
       MkStatus("legal_research", 50, "O3 Pro Deep Research",
                "Searching for supporting precedents in legal databases..."),
       MkStatus("scientific_research", 65, "GPT-4.1",
                "Reviewing medical literature and expert methodologies..."),
       MkStatus("brief_writing", 80, "GPT-4.5", "Drafting comprehensive legal arguments..."),
       MkStatus("final_review", 95, "Gemini 2.5 Pro",
                "Fact-checking and polishing final brief..."),
       MkStatus("completed", 100, "System", "Brief generation complete!") >>

\* A call of simulateGenerateBrief with its arguments.
SimInit ==
    /\ srvProgressEvent = "progress_update"
    /\ nextCase = 1
    /\ call = [k \in Cases |-> NoCall]
    /\ noopRun = [k \in Cases |-> NoCall]
    /\ app = [c \in ReactClients |-> NoApp]
    /\ page = NoPage
    /\ srv = [k \in Cases |-> NoTask]
    /\ lastCall = NoLast
    /\ ExtIdle
    /\ \E briefType \in BriefTypes, jurisdiction \in Jurisdictions,
          files \in 0..MaxFiles, observer \in Observers :
        sim = [NoSim EXCEPT !.pc = "loop", !.briefType = briefType,
                            !.jurisdiction = jurisdiction, !.files = files,
                            !.observer = observer]

\* One turn of the loop: the 2 s timer fires and the next stage is reported; an
\* exception of onProgress rejects the promise of the async function.
SimStage ==
    /\ sim.pc = "loop"
    /\ sim.i < Len(stages)
    /\ sim' = IF sim.observer = "throws"
              THEN [sim EXCEPT !.pc = "rejected", !.i = @ + 1]
              ELSE [sim EXCEPT !.i = @ + 1, !.reported = Append(@, stages[sim.i + 1])]
    /\ UNCHANGED << ext, srvProgressEvent, nextCase, call, noopRun, app, page, srv, lastCall >>

\* The loop is over: the simulated brief is returned.
SimReturn ==
    /\ sim.pc = "loop"
    /\ sim.i = Len(stages)
    /\ sim' = [sim EXCEPT !.pc = "returned",
                          !.result = [brief |-> << "sampleBrief", sim.jurisdiction,
                                                   sim.briefType >>,
                                      citations |-> 15, processingTime |-> 14000]]
    /\ UNCHANGED << ext, srvProgressEvent, nextCase, call, noopRun, app, page, srv, lastCall >>

SimNext == SimStage \/ SimReturn

SimSpec == SimInit /\ [][SimNext]_vars

\* At most one request of a client has a connected socket.
OneLiveCall == \A c \in ReactClients : Cardinality(LiveCalls(c)) <= 1

\* --------------------------------------------------------------- vocabulary
\* The requests made through generateBrief.
ReactCases == {k \in Cases : call[k].client \in ReactClients}

\* The run of Case k failed: its task was aborted or its start request failed.
RunFailed(k) ==
    srv[k].state = "failed" \/ call[k].http \in {"refused", "status500", "neterr"}

\* ----------------------------------------------------------------------- C1
\* C1: a Case delivers at most one Brief: the promise of generateBrief, once settled,
\* keeps its outcome, it is resolved only once some task has completed with success,
\* and a Case whose run failed (aborted task or failed start request) is not resolved
\* with a Brief.
C1_AtMostOneBrief ==
    /\ [][\A k \in Cases :
            call[k].promise \in {"resolved", "rejected"} =>
                /\ call'[k].promise = call[k].promise
                /\ call'[k].result = call[k].result
                /\ call'[k].error = call[k].error]_vars
    /\ [](\A k \in ReactCases :
            /\ call[k].promise = "resolved" => \E t \in Cases : srv[t].state = "complete"
            /\ RunFailed(k) => call[k].promise # "resolved")

\* ----------------------------------------------------------------------- C2
\* Two consecutive reports to the observer of client c between the start of a Case
\* and its terminal outcome.
ConsecutiveReports(c) ==
    /\ app'[c].generationStatus # app[c].generationStatus
    /\ app[c].generationStatus.stage \notin {"null", "completed", "error"}
    /\ app'[c].generationStatus.stage \notin {"null", "error"}

\* C2: the progress events delivered to the observer of a Case are in strictly
\* increasing stage order and never decrease in percentage.
C2_ProgressMonotone ==
    [][\A c \in ReactClients :
        ConsecutiveReports(c) =>
            /\ StageIndex(app'[c].generationStatus.stage)
                > StageIndex(app[c].generationStatus.stage)
            /\ app'[c].generationStatus.progress >= app[c].generationStatus.progress]_vars

\* C2, read with "strictly increasing" weakened to "never going back": still violated,
\* by the start response handled after a progress_update.
C2_NeverGoesBack ==
    [][\A c \in ReactClients :
        ConsecutiveReports(c) =>
            /\ StageIndex(app'[c].generationStatus.stage)
                >= StageIndex(app[c].generationStatus.stage)
            /\ app'[c].generationStatus.progress >= app[c].generationStatus.progress]_vars

CurrentCase(c) ==
    IF \E k \in Cases : call[k].client = c
    THEN CHOOSE k \in Cases :
            call[k].client = c /\ \A j \in Cases : call[j].client = c => j <= k
    ELSE 0

ResearchStages == {"Legal research", "Scientific research"}

\* C4: once a researcher of a Case has failed the Case is aborted: the pipeline never
\* enters drafting, no brief_writing or final_review progress is shown for the Case
\* and its caller does not receive a Brief.
C4_ResearcherFailureAborts ==
    \A k \in ReactCases :
        (srv[k].state = "failed" /\ srv[k].error \in ResearchStages) =>
            /\ srv[k].stage < 5
            /\ call[k].promise # "resolved"
            /\ CurrentCase(call[k].client) = k =>
                app[call[k].client].generationStatus.stage
                    \notin {"brief_writing", "final_review"}

\* ----------------------------------------------------------------------- C5
\* C5: an event the server emits for task t is accepted by the request of task t
\* alone: no other request settles on it and no other client's display changes.
C5_NoCrossCaseLeak ==
    [][\A t \in Cases :
        srv'[t] # srv[t] =>
            /\ \A k \in Cases \ {t} : call'[k] = call[k]
            /\ \A c \in ReactClients : app'[c] # app[c] => call[t].client = c]_vars

\* ----------------------------------------------------------------------- C6
\* C6: a started generation ends in a terminal outcome: when nothing can happen any
\* more, no promise of generateBrief is still pending.
C6_TerminalOutcome ==
    (~ENABLED Next) => \A k \in ReactCases : call[k].promise # "pending"

\* ----------------------------------------------------------------------- C7
\* C7: a failure of the pipeline reaches the caller with the failing stage named, in
\* the error generateBrief rejects with and in the status the App shows for it.
C7_ErrorNamesStage ==
    \A k \in ReactCases :
        (srv[k].state = "failed" /\ call[k].promise = "rejected"
            /\ CurrentCase(call[k].client) = k) =>
            /\ call[k].error.message = srv[k].error
            /\ app[call[k].client].generationStatus.message = srv[k].error

\* ----------------------------------------------------------------------- C8
\* C8: the outcome of a generation is the outcome of the same run under a no-op
\* observer.
C8_ObserverHasNoInfluence ==
    \A k \in ReactCases :
        /\ call[k].promise = noopRun[k].promise
        /\ call[k].result = noopRun[k].result
        /\ call[k].error = noopRun[k].error

\* ----------------------------------------------------------------------- C9
\* The step is a call of a submit handler with the given inputs.
Submitted(handler) == lastCall'.handler = handler

NothingStarts == nextCase' = nextCase /\ call' = call /\ app' = app /\ page' = page

\* C9: in both clients a Case with a missing expert name or an empty document set
\* sends no request and reports no progress.
C9_RejectedBeforeStart ==
    [][(/\ Submitted("handleGenerateBrief") \/ Submitted("handleGenerate")
        /\ lastCall'.expertName = "" \/ lastCall'.files = 0)
        => NothingStarts]_vars

\* C9 as the code has it: handleGenerateBrief rejects a missing expert name and an
\* empty document set, handleGenerate rejects a missing expert name (and does not
\* look at the documents).
C9_RejectedBeforeStartAmended ==
    [][(\/ /\ Submitted("handleGenerateBrief")
           /\ lastCall'.expertName = "" \/ lastCall'.files = 0
        \/ /\ Submitted("handleGenerate")
           /\ lastCall'.expertName = "")
        => NothingStarts]_vars

\* A rejected submission of a client that has nothing running, next to a request of
\* another client that was sent.
C9_Rejected ==
    /\ lastCall.handler = "handleGenerateBrief"
    /\ lastCall.expertName = ""
    /\ lastCall.files > 0
    /\ lastCall.briefType # ""
    /\ CurrentCase(lastCall.client) = 0
    /\ app[lastCall.client] = NoApp
    /\ \E k \in Cases : call[k].http = "sent"

\* ---------------------------------------------------------------------- C10
\* Task t of the Bootstrap page was superseded by a later request of the page.
Superseded(t) ==
    /\ call[t].client = "b"
    /\ \E k \in Cases : k > t /\ call[k].client = "b"

\* C10: once a Case is superseded by a new request, its Brief is not displayed any
\* more.
C10_NoBriefAfterCancel ==
    [][\A t \in Cases :
        Superseded(t) =>
            ~(/\ page'.resultShown
              /\ page'.briefPreview = << "excerpt", t >>
              /\ ~page.resultShown)]_vars

\* ------------------------------------ two runs against one stubbed backend
\* The responses the stubbed stages give: the researchers' citation counts and the
\* brief_complete payload (an empty excerpt or result makes the client fall back).
Stubs ==
    { [success |-> ok, brief_excerpt |-> excerpt, full_result_length |-> len,
       error |-> IF ok THEN "" ELSE "Legal research",
       legalCitations |-> lc, sciCitations |-> sc] :
        ok \in BOOLEAN, excerpt \in {NoBrief, << "excerpt" >>}, len \in {0, 1200},
        lc \in 0..MaxCitations, sc \in 0..MaxCitations }

\* Progress events the stub emits before its brief_complete.
StubLength(stub) == IF stub.success THEN Len(SrvStages) ELSE 3

StubComplete(stub) ==
    [task_id |-> 0, success |-> stub.success, brief_excerpt |-> stub.brief_excerpt,
     full_result_length |-> stub.full_result_length, error |-> stub.error]

TwinInit ==
    /\ WebInit("progress_update")
    /\ ToolsIdle
    /\ launcher = NoLauncher
    /\ ps1 = NoPs1
    /\ disk = NoDisk
    /\ \E stub \in Stubs : twin = [NoTwin EXCEPT !.stub = stub]

\* generateBrief is called (the second time once the first run is over); the start
\* request succeeds and .then reports the first status.
TwinStart(r) ==
    /\ twin.run[r].pc = "idle"
    /\ r = 2 => twin.run[1].pc \in {"resolved", "rejected"}
    /\ twin' = [twin EXCEPT !.run[r].pc = "pending",
                            !.run[r].reported = << ProcessingRequest >>]
    /\ UNCHANGED << web, tools, launcher, ps1, disk >>

\* The stub emits its next progress_update.
TwinProgress(r) ==
    /\ twin.run[r].pc = "pending"
    /\ twin.run[r].i < StubLength(twin.stub)
    /\ twin' = [twin EXCEPT
                    !.run[r].i = @ + 1,
                    !.run[r].reported =
                        Append(@, progress_update(ProgressData(0, twin.run[r].i + 1)))]
    /\ UNCHANGED << web, tools, launcher, ps1, disk >>

\* The stub emits brief_complete.
TwinComplete(r) ==
    /\ twin.run[r].pc = "pending"
    /\ twin.run[r].i = StubLength(twin.stub)
    /\ twin' = IF twin.stub.success
               THEN [twin EXCEPT
                        !.run[r].pc = "resolved",
                        !.run[r].result = BriefResponse(StubComplete(twin.stub), twin.now)]
               ELSE [twin EXCEPT
                        !.run[r].pc = "rejected",
                        !.run[r].error =
                            parseApiError(MkError(TRUE, 500, "", twin.stub.error, "", "",
                                                  TRUE))]
    /\ UNCHANGED << web, tools, launcher, ps1, disk >>

\* Time passes.
TwinTick ==
    /\ twin.now < MaxClock
    /\ twin' = [twin EXCEPT !.now = @ + 1]
    /\ UNCHANGED << web, tools, launcher, ps1, disk >>

TwinNext ==
    \/ \E r \in {1, 2} : TwinStart(r)
    \/ \E r \in {1, 2} : TwinProgress(r)
    \/ \E r \in {1, 2} : TwinComplete(r)
    \/ TwinTick

TwinSpec == TwinInit /\ [][TwinNext]_vars

\* ---------------------------------------------------------------------- C11
\* C11: two runs of the same Case against the same stubbed stages report the same
\* sequence of progress statuses and end with the same result object, metadata
\* included.
C11_TwinRunsAgree ==
    (\A r \in {1, 2} : twin.run[r].pc \in {"resolved", "rejected"}) =>
        /\ twin.run[1].reported = twin.run[2].reported
        /\ twin.run[1].pc = twin.run[2].pc
        /\ twin.run[1].result = twin.run[2].result
        /\ twin.run[1].error = twin.run[2].error

\* ---------------------------------------------------------------------- C12
\* C12: the citation count of a delivered Brief is the sum of the citations the two
\* researchers returned.
C12_CitationsAreTheResearchersTotal ==
    \A r \in {1, 2} :
        twin.run[r].pc = "resolved" =>
            twin.run[r].result.citations
                = twin.stub.legalCitations + twin.stub.sciCitations

\* ---------------------------------------------------------------------- C13
\* What the operator of client c can do: the two buttons of App.
UserAction(c) == handleReset(c) \/ handleGenerateBrief(c)

\* C13: in the error state of the React UI the operator has a way on: a user action
\* (New Brief or Generate Brief) is available, leading back to the input form.
C13_ErrorStateCanResubmit ==
    \A c \in ReactClients :
        app[c].generationStatus.stage = "error" => ENABLED UserAction(c)

\* Client c shows neither the form nor a brief and has no request pending.
Stuck(c) ==
    /\ app[c].generationStatus # NoStatus
    /\ app[c].generatedBrief = NoBrief
    /\ \A k \in Cases : call[k].client = c => call[k].promise \in {"resolved", "rejected"}

\* A client in the error state is stuck, and a stuck client stays stuck.
C13_ErrorStateIsFinal ==
    /\ [](\A c \in ReactClients : app[c].generationStatus.stage = "error" => Stuck(c))
    /\ [][\A c \in ReactClients : Stuck(c) => Stuck(c)']_vars

\* ---------------------------------------------------------------------- C14
\* The step emits a progress event of task t.
EmitsProgress(t) == srv[t].state = "running" /\ srv'[t].stage = srv[t].stage + 1

\* C14: every progress event the server emits for the task of the Bootstrap page's
\* latest request reaches the page's progress display when it is emitted.
C14_ProgressDelivered ==
    [][\A t \in Cases :
        (CurrentCase("b") = t /\ EmitsProgress(t)) =>
            /\ page'.progressStage = SrvStages[srv'[t].stage].stage
            /\ page'.progressWidth = SrvStages[srv'[t].stage].progress]_vars

\* ------------------------------------------------- launcher/main.js
\* startDocker gives up after this many waits of one second.
DockerPollLimit == 60

\* Every step of the launcher but the Exit dialog leaves no dialog answer behind.
Step(l) == [l EXCEPT !.choice = "none"]

\* app.quit(): the before-quit handler starts stopLexicon and the process ends.
Quit(l, reason) ==
    [l EXCEPT !.pc = "quit", !.quit = reason, !.stopsStarted = @ + 1]

\* exec('docker info'): the answer for the present state of Docker.
checkDocker(l) == IF l.docker = "up" THEN "yes" ELSE "no"

LauncherInit ==
    /\ WebInit("progress_update")
    /\ ToolsIdle
    /\ twin = NoTwin
    /\ ps1 = NoPs1
    /\ disk = NoDisk
    /\ \E firstRun \in BOOLEAN, docker \in {"down", "up"} :
        launcher = [NoLauncher EXCEPT !.pc = "checkFirstRun", !.firstRun = firstRun,
                                      !.docker = docker]

\* checkFirstRun: the wizard is shown on a first run.
checkFirstRun ==
    /\ launcher.pc = "checkFirstRun"
    /\ launcher' = IF launcher.firstRun
                   THEN [Step(launcher) EXCEPT !.pc = "wizard"]
                   ELSE [Step(launcher) EXCEPT !.pc = "startDocker", !.setup = "notNeeded"]
    /\ UNCHANGED << web, tools, twin, ps1, disk >>

\* ipcMain.once('setup-complete').
SetupComplete ==
    /\ launcher.pc = "wizard"
    /\ launcher' = [Step(launcher) EXCEPT !.firstRun = FALSE, !.setup = "completed",
                                          !.pc = "startDocker"]
    /\ UNCHANGED << web, tools, twin, ps1, disk >>

\* ipcMain.once('setup-cancel'): checkFirstRun returns false and the app quits.
SetupCancel ==
    /\ launcher.pc = "wizard"
    /\ launcher' = Quit([Step(launcher) EXCEPT !.setup = "cancelled"], "setup")
    /\ UNCHANGED << web, tools, twin, ps1, disk >>

\* Docker Desktop comes up (started by the launcher or by hand).
DockerComesUp ==
    /\ launcher.pc \in {"startDocker", "waitDocker"}
    /\ launcher.docker = "down"
    /\ launcher' = [Step(launcher) EXCEPT !.docker = "up"]
    /\ UNCHANGED << web, tools, twin, ps1, disk >>

\* startDocker returned false and the startup goes on all the same.
DockerFailureIgnored(l) ==
    [l EXCEPT !.dockerResult = "no", !.errorBox = "Docker Error", !.pc = "deploy"]

\* startDocker returned false: the error box was shown, the app quits.
DockerFailed(l) ==
    Quit([l EXCEPT !.dockerResult = "no", !.errorBox = "Docker Error"], "docker")

\* startDocker returned true: startLexicon spawns the deployment script.
DockerConfirmed(l) == [l EXCEPT !.dockerResult = "yes", !.pc = "deploy"]

\* startDocker, its first check: Docker runs already, or Docker Desktop is spawned
\* (spawn may throw).
startDocker ==
    /\ launcher.pc = "startDocker"
    /\ \E spawn \in {"ok", "throws"} :
        LET l == [Step(launcher) EXCEPT !.checks = @ + 1,
                                        !.lastCheck = checkDocker(launcher)]
        IN launcher' = IF l.lastCheck = "yes" THEN DockerConfirmed(l)
                       ELSE IF spawn = "throws" THEN DockerFailed(l)
                       ELSE [l EXCEPT !.pc = "waitDocker"]
    /\ UNCHANGED << web, tools, twin, ps1, disk >>

\* startDocker, one evaluation of the loop condition and what follows it: a wait of
\* one second, or the end of the loop with the test of `attempts`.
waitDocker ==
    /\ launcher.pc = "waitDocker"
    /\ LET l == [Step(launcher) EXCEPT !.checks = @ + 1,
                                       !.lastCheck = checkDocker(launcher)]
       IN launcher' = IF l.lastCheck = "no" /\ l.attempts < DockerPollLimit
                      THEN [l EXCEPT !.attempts = @ + 1]
                      ELSE IF l.attempts >= DockerPollLimit THEN DockerFailed(l)
                      ELSE DockerConfirmed(l)
    /\ UNCHANGED << web, tools, twin, ps1, disk >>

\* startLexicon: the deployment script closes; on code 0 the success notification is
\* shown and the tray created, otherwise the rejection is caught and the app quits.
startLexicon ==
    /\ launcher.pc = "deploy"
    /\ \E code \in {"0", "1"} :
        LET l == [Step(launcher) EXCEPT !.deployCode = code]
        IN launcher' = IF code = "0"
                       THEN [l EXCEPT !.deployReady = TRUE, !.services = "up",
                                      !.tray = TRUE, !.pc = "tray"]
                       ELSE Quit([l EXCEPT !.errorBox = "LEXICON Error"], "deploy")
    /\ UNCHANGED << web, tools, twin, ps1, disk >>

\* The 2 s timer after createTray: the browser is opened if the store says first
\* run, and the ready notification is shown.
ReadyTimer ==
    /\ launcher.pc = "tray"
    /\ launcher' = [Step(launcher) EXCEPT !.pc = "ready",
                                          !.browserOpened = launcher.firstRun,
                                          !.readyShown = TRUE]
    /\ UNCHANGED << web, tools, twin, ps1, disk >>

\* The Exit item with app.quit() called without waiting for stopLexicon.
ExitClickQuitsAtOnce ==
    /\ launcher.tray
    /\ launcher.quit = "no"
    /\ launcher.clicks < MaxClicks
    /\ \E choice \in {"Exit", "Cancel"} :
        launcher' = IF choice = "Exit"
                    THEN Quit([launcher EXCEPT !.choice = choice, !.clicks = @ + 1,
                                               !.exitStops = @ + 1,
                                               !.stopsStarted = @ + 1], "exit")
                    ELSE [launcher EXCEPT !.choice = choice, !.clicks = @ + 1]
    /\ UNCHANGED << web, tools, twin, ps1, disk >>

\* Tray menu, Exit: the dialog is answered; on Exit the handler starts stopLexicon and
\* waits for it.
ExitClick ==
    /\ launcher.tray
    /\ launcher.quit = "no"
    /\ launcher.clicks < MaxClicks
    /\ \E choice \in {"Exit", "Cancel"} :
        launcher' = IF choice = "Exit"
                    THEN [launcher EXCEPT !.choice = choice, !.clicks = @ + 1,
                                          !.exitStops = @ + 1, !.stopsStarted = @ + 1]
                    ELSE [launcher EXCEPT !.choice = choice, !.clicks = @ + 1]
    /\ UNCHANGED << web, tools, twin, ps1, disk >>

\* Tray menu, Services > Stop Services.
StopServicesClick ==
    /\ launcher.tray
    /\ launcher.quit = "no"
    /\ launcher.clicks < MaxClicks
    /\ launcher' = [Step(launcher) EXCEPT !.clicks = @ + 1, !.menuStops = @ + 1,
                                          !.stopsStarted = @ + 1]
    /\ UNCHANGED << web, tools, twin, ps1, disk >>

\* stopLexicon of an Exit handler completes (docker-compose down ended, with or
\* without error); the handler goes on to app.quit().
ExitStopDone ==
    /\ launcher.quit = "no"
    /\ launcher.exitStops > 0
    /\ \E error \in BOOLEAN :
        launcher' = Quit([Step(launcher) EXCEPT
                            !.exitStops = @ - 1, !.exitDone = @ + 1,
                            !.services = IF error THEN @ ELSE "down"], "exit")
    /\ UNCHANGED << web, tools, twin, ps1, disk >>

\* stopLexicon of Stop Services completes.
MenuStopDone ==
    /\ launcher.quit = "no"
    /\ launcher.menuStops > 0
    /\ \E error \in BOOLEAN :
        launcher' = [Step(launcher) EXCEPT !.menuStops = @ - 1,
                                           !.services = IF error THEN @ ELSE "down"]
    /\ UNCHANGED << web, tools, twin, ps1, disk >>

LauncherNext ==
    \/ checkFirstRun
    \/ SetupComplete
    \/ SetupCancel
    \/ DockerComesUp
    \/ startDocker
    \/ waitDocker
    \/ startLexicon
    \/ ReadyTimer
    \/ ExitClick
    \/ StopServicesClick
    \/ ExitStopDone
    \/ MenuStopDone

LauncherSpec == LauncherInit /\ [][LauncherNext]_vars

\* ---------------------------------------------------------------------- C15
\* C15: on a first launch whose setup wizard completed, the browser has been opened
\* by the time the launcher reports ready.
C15_BrowserOpensOnFirstLaunch ==
    (launcher.readyShown /\ launcher.setup = "completed") => launcher.browserOpened

\* ------------------------------------------- backup.sh and restore.sh
Components == {"chromadb", "dump", "aof", "uploads", "briefs", "anonymized"}

DataStates == [Components -> 0..MaxVersion]

\* What backup.sh puts into the archive of data state d: a tarball per directory that
\* exists, the Redis dump if it exists and, only then, the append-only file.
Archive(d) ==
    [chromadb |-> d.chromadb,
     dump |-> d.dump,
     aof |-> IF d.dump # 0 THEN d.aof ELSE 0,
     uploads |-> d.uploads,
     briefs |-> d.briefs,
     anonymized |-> d.anonymized]

\* What restore.sh makes of data state d with archive a: a directory is replaced if
\* its tarball is in the archive, the Redis files are copied over if the dump is.
Restore(a, d) ==
    [chromadb |-> IF a.chromadb # 0 THEN a.chromadb ELSE d.chromadb,
     dump |-> IF a.dump # 0 THEN a.dump ELSE d.dump,
     aof |-> IF a.dump # 0 /\ a.aof # 0 THEN a.aof ELSE d.aof,
     uploads |-> IF a.uploads # 0 THEN a.uploads ELSE d.uploads,
     briefs |-> IF a.briefs # 0 THEN a.briefs ELSE d.briefs,
     anonymized |-> IF a.anonymized # 0 THEN a.anonymized ELSE d.anonymized]

BackupInit ==
    /\ WebInit("progress_update")
    /\ ToolsIdle
    /\ twin = NoTwin
    /\ launcher = NoLauncher
    /\ ps1 = NoPs1
    /\ \E d \in DataStates : disk = [NoDisk EXCEPT !.pc = "live", !.data = d]

\* The services write to /data: a component gets another content, appears or goes.
DataWrite ==
    /\ disk.pc \in {"live", "restored"}
    /\ \E c \in Components, v \in 0..MaxVersion :
        /\ v # disk.data[c]
        /\ disk' = [disk EXCEPT !.pc = "live", !.data[c] = v]
    /\ UNCHANGED << web, tools, twin, launcher, ps1 >>

\* A run of backup.sh.
backup ==
    /\ disk.pc = "live"
    /\ ~disk.archived
    /\ disk' = [disk EXCEPT !.archived = TRUE, !.archive = Archive(disk.data),
                            !.saved = disk.data]
    /\ UNCHANGED << web, tools, twin, launcher, ps1 >>

\* A run of restore.sh with the archive.
restore ==
    /\ disk.pc = "live"
    /\ disk.archived
    /\ disk' = [disk EXCEPT !.pc = "restored", !.data = Restore(disk.archive, disk.data)]
    /\ UNCHANGED << web, tools, twin, launcher, ps1 >>

BackupNext == DataWrite \/ backup \/ restore

BackupSpec == BackupInit /\ [][BackupNext]_vars

\* ---------------------------------------------------------------------- C16
\* C16: after restore.sh has run with the archive backup.sh made of data state D,
\* every component of /data is what it was in D, absent where it was absent.
C16_RestoreIsRoundTrip ==
    disk.pc = "restored" => disk.data = disk.saved

\* Restore brings back what the archive holds.
C16_ArchivedComponentsComeBack ==
    disk.pc = "restored" =>
        \A c \in Components : disk.archive[c] # 0 => disk.data[c] = disk.saved[c]

\* ------------------------------------- LEXICON.bat and start-lexicon.ps1
Launches == 1..MaxLaunches

\* $mutex.ReleaseMutex() by launch i: the mutex is freed if i owns it (otherwise the
\* call fails and changes nothing).
ReleaseMutex(m, i) == IF m = i THEN 0 ELSE m

MutexInit ==
    /\ WebInit("progress_update")
    /\ ToolsIdle
    /\ twin = NoTwin
    /\ launcher = NoLauncher
    /\ disk = NoDisk
    /\ ps1 = NoPs1

\* LEXICON.bat is double-clicked.
Launch(i) ==
    /\ ps1.inst[i].pc = "off"
    /\ ps1' = [ps1 EXCEPT !.inst[i].pc = "bat"]
    /\ UNCHANGED << web, tools, twin, launcher, disk >>

\* LEXICON.bat: the tasklist test for a window titled LEXICON (whatever it finds),
\* then start-lexicon.ps1.
BatCheck(i) ==
    /\ ps1.inst[i].pc = "bat"
    /\ \E found \in BOOLEAN :
        ps1' = [ps1 EXCEPT !.inst[i].pc = IF found THEN "exited" ELSE "ps"]
    /\ UNCHANGED << web, tools, twin, launcher, disk >>

\* start-lexicon.ps1 passes the test of the mutex whoever owns it.
MutexCheckAlwaysPasses(i) ==
    /\ ps1.inst[i].pc = "ps"
    /\ ps1' = [ps1 EXCEPT !.inst[i].pc = "docker", !.inst[i].passed = TRUE]
    /\ UNCHANGED << web, tools, twin, launcher, disk >>

\* start-lexicon.ps1: $mutex.WaitOne(0) takes the mutex if it is free; otherwise the
\* message is shown and the script exits.
MutexCheck(i) ==
    /\ ps1.inst[i].pc = "ps"
    /\ ps1' = IF ps1.mutex = 0
              THEN [ps1 EXCEPT !.mutex = i, !.inst[i].pc = "docker",
                               !.inst[i].passed = TRUE]
              ELSE [ps1 EXCEPT !.inst[i].pc = "exited"]
    /\ UNCHANGED << web, tools, twin, launcher, disk >>

\* Check Docker: it runs, or Docker Desktop is started and comes up in time, or the
\* error is shown, the mutex released and the script exits.
PsDocker(i) ==
    /\ ps1.inst[i].pc = "docker"
    /\ \E running \in BOOLEAN, started \in BOOLEAN :
        ps1' = IF running \/ started
               THEN [ps1 EXCEPT !.inst[i].pc = "deploy",
                                !.inst[i].startedDocker = ~running]
               ELSE [ps1 EXCEPT !.inst[i].pc = "exited",
                                !.inst[i].startedDocker = TRUE,
                                !.mutex = ReleaseMutex(@, i)]
    /\ UNCHANGED << web, tools, twin, launcher, disk >>

\* docker-compose up as a job; if it does not complete in time the mutex is released
\* and the script exits.
PsDeploy(i) ==
    /\ ps1.inst[i].pc = "deploy"
    /\ \E completed \in BOOLEAN :
        ps1' = IF completed
               THEN [ps1 EXCEPT !.inst[i].pc = "health", !.inst[i].startedServices = TRUE]
               ELSE [ps1 EXCEPT !.inst[i].pc = "exited",
                                !.inst[i].startedServices = TRUE,
                                !.mutex = ReleaseMutex(@, i)]
    /\ UNCHANGED << web, tools, twin, launcher, disk >>

\* The health check: the tray icon and the message loop, or the warning and the end
\* of the script.
PsHealth(i) ==
    /\ ps1.inst[i].pc = "health"
    /\ \E healthy \in BOOLEAN :
        ps1' = IF healthy
               THEN [ps1 EXCEPT !.inst[i].pc = "tray"]
               ELSE [ps1 EXCEPT !.inst[i].pc = "exited", !.mutex = ReleaseMutex(@, i)]
    /\ UNCHANGED << web, tools, twin, launcher, disk >>

\* Tray menu, Exit answered Yes: the services are stopped, the mutex is released and
\* the message loop is told to end.
PsExit(i) ==
    /\ ps1.inst[i].pc = "tray"
    /\ ps1' = [ps1 EXCEPT !.inst[i].pc = "leaving", !.mutex = ReleaseMutex(@, i)]
    /\ UNCHANGED << web, tools, twin, launcher, disk >>

\* Application.Run returns: the last line releases the mutex once more and the script
\* ends.
PsEnd(i) ==
    /\ ps1.inst[i].pc = "leaving"
    /\ ps1' = [ps1 EXCEPT !.inst[i].pc = "exited", !.mutex = ReleaseMutex(@, i)]
    /\ UNCHANGED << web, tools, twin, launcher, disk >>

MutexNext ==
    \E i \in Launches :
        \/ Launch(i)
        \/ BatCheck(i)
        \/ MutexCheck(i)
        \/ PsDocker(i)
        \/ PsDeploy(i)
        \/ PsHealth(i)
        \/ PsExit(i)
        \/ PsEnd(i)

MutexSpec == MutexInit /\ [][MutexNext]_vars

\* ---------------------------------------------------------------------- C17
\* Launch i is at work behind the single-instance check.
Working(i) == ps1.inst[i].pc \in {"docker", "deploy", "health", "tray"}

\* C17: at most one launch is at work behind the single-instance check, the one that
\* owns LEXICON_MUTEX; a launch that meets the mutex taken exits and never starts
\* Docker or the services.
C17_SingleInstance ==
    /\ \A i, j \in Launches : (Working(i) /\ Working(j)) => i = j
    /\ \A i \in Launches : Working(i) => ps1.mutex = i
    /\ \A i \in Launches :
        ~ps1.inst[i].passed =>
            ~ps1.inst[i].startedDocker /\ ~ps1.inst[i].startedServices
    /\ \A i \in Launches :
        (ps1.inst[i].pc = "exited" /\ ps1.inst[i].passed) => ps1.mutex # i

\* One launch was turned away by the mutex while the other is at work.
C17_SecondLaunchTurnedAway ==
    \E i, j \in Launches :
        /\ Working(i)
        /\ ps1.inst[i].startedServices
        /\ ps1.inst[j].pc = "exited"
        /\ ~ps1.inst[j].passed

\* ---------------------------------------------------------------------- C18
\* C18: the Exit handler calls app.quit() only when its stopLexicon has completed;
\* answering Exit starts stopLexicon and does not quit yet; answering Cancel starts no
\* stopLexicon and does not quit.
C18_ExitStopsBeforeQuit ==
    [][/\ (launcher.quit = "no" /\ launcher'.quit = "exit") =>
            /\ launcher.exitStops > 0
            /\ launcher'.exitDone = launcher.exitDone + 1
       /\ launcher'.choice = "Exit" =>
            /\ launcher'.stopsStarted = launcher.stopsStarted + 1
            /\ launcher'.quit = "no"
       /\ launcher'.choice = "Cancel" =>
            /\ launcher'.stopsStarted = launcher.stopsStarted
            /\ launcher'.exitStops = launcher.exitStops
            /\ launcher'.quit = launcher.quit]_vars

\* The user cancelled once, then confirmed Exit, and the application has quit.
C18_QuitAfterExit ==
    /\ launcher.quit = "exit"
    /\ launcher.exitDone = 1
    /\ launcher.clicks = 2

\* ---------------------------------------------------------------------- C19
\* C19: startDocker waits at most DockerPollLimit times, and what it returns is the
\* answer of the last `docker info` it made: true if that check succeeded, false only
\* if it failed.
C19_StartDockerAgrees ==
    /\ launcher.attempts <= DockerPollLimit
    /\ launcher.dockerResult # "none" => launcher.dockerResult = launcher.lastCheck

\* ---------------------------------------------------------------------- C20
\* Setup is over with a go-ahead.
SetupPassed == launcher.setup \in {"completed", "notNeeded"}

\* C20: the tray and the ready notifications exist only after setup passed, Docker was
\* confirmed running and the deployment exited with code 0; each step starts only
\* after the one before passed; after a cancelled setup, a failed startDocker or a
\* failed deployment the app has quit with no tray and no later step started.
C20_StartupOrder ==
    /\ (launcher.tray \/ launcher.readyShown \/ launcher.deployReady) =>
            /\ SetupPassed
            /\ launcher.dockerResult = "yes" /\ launcher.lastCheck = "yes"
            /\ launcher.deployCode = "0"
    /\ launcher.readyShown => launcher.tray
    /\ launcher.checks > 0 => SetupPassed
    /\ (launcher.pc = "deploy" \/ launcher.deployCode # "none") =>
            launcher.dockerResult = "yes"
    /\ (launcher.setup = "cancelled" \/ launcher.dockerResult = "no"
            \/ launcher.deployCode = "1") =>
            /\ launcher.pc = "quit"
            /\ ~launcher.tray /\ ~launcher.readyShown
    /\ launcher.setup = "cancelled" =>
            launcher.checks = 0 /\ launcher.deployCode = "none"
    /\ launcher.dockerResult = "no" => launcher.deployCode = "none"

\* A first run that waited for Docker and reached the ready notification.
C20_ReadyAfterAllSteps ==
    /\ launcher.readyShown
    /\ launcher.tray
    /\ launcher.setup = "completed"
    /\ launcher.attempts > 0


\* ------------------------------------------ RUN-COMPREHENSIVE-TEST.bat
\* The script waits at most this many seconds for the services.
MAX_WAIT == 120

\* What the script is started on: .env.test may be missing, .env may be missing,
\* a .env.backup may lie around from a run that was killed, and the two Python
\* test scripts may or may not be there.
TestInit ==
    /\ WebInit("progress_update")
    /\ ProgsIdle
    /\ hist = NoHist
    /\ parse = NoParse
    /\ tracker = NoTracker
    /\ \E t \in {"absent", "test"}, e \in {"absent", "prod"}, b \in {"absent", "stale"},
          edge \in BOOLEAN, perf \in BOOLEAN :
        bat = [NoBat EXCEPT !.pc = "check_env_test", !.test = t, !.env = e,
                            !.env0 = e, !.backup = b,
                            !.edgeScript = edge, !.perfScript = perf]

\* if not exist ".env.test": exit /b 1, before anything is touched.
EnvTestMissing ==
    /\ bat.pc = "check_env_test"
    /\ bat.test = "absent"
    /\ bat' = [bat EXCEPT !.pc = "done", !.exit = "1"]
    /\ UNCHANGED << web, progs, hist, parse, tracker >>

\* .env is copied to .env.backup if it exists, then .env.test is copied over .env.
SwitchEnv ==
    /\ bat.pc = "check_env_test"
    /\ bat.test # "absent"
    /\ bat' = [bat EXCEPT !.pc = "preflight",
                          !.backup = IF bat.env # "absent" THEN bat.env ELSE @,
                          !.env = bat.test,
                          !.switched = TRUE]
    /\ UNCHANGED << web, progs, hist, parse, tracker >>

\* Step 1/5: pre-flight-check.ps1; a non-zero exit code goes to :restore.
PreFlight ==
    /\ bat.pc = "preflight"
    /\ \E ok \in BOOLEAN :
        bat' = IF ok
               THEN [bat EXCEPT !.pc = "compose_up",
                                !.executed = @ \cup {"preflight"},
                                !.succeeded = @ \cup {"preflight"}]
               ELSE [bat EXCEPT !.pc = "restore",
                                !.executed = @ \cup {"preflight"},
                                !.failed = @ \cup {"preflight"},
                                !.EXIT_CODE = "1"]
    /\ UNCHANGED << web, progs, hist, parse, tracker >>

\* Step 2/5: docker-compose up -d; a non-zero exit code goes to :restore.
ComposeUp ==
    /\ bat.pc = "compose_up"
    /\ \E ok \in BOOLEAN :
        bat' = IF ok
               THEN [bat EXCEPT !.pc = "healthcheck_loop", !.WAIT_TIME = 0]
               ELSE [bat EXCEPT !.pc = "restore", !.EXIT_CODE = "1"]
    /\ UNCHANGED << web, progs, hist, parse, tracker >>

\* One pass of :healthcheck_loop. ChromaDB and Redis decide; the web application
\* is probed and printed but not waited for.
healthcheck_loop ==
    /\ bat.pc = "healthcheck_loop"
    /\ \E CHROMA_HEALTHY \in BOOLEAN, REDIS_HEALTHY \in BOOLEAN, WEBAPP_HEALTHY \in BOOLEAN :
        bat' = IF bat.WAIT_TIME >= MAX_WAIT
               THEN [bat EXCEPT !.pc = "cleanup", !.EXIT_CODE = "1",
                                !.failed = @ \cup {"health"}]
               ELSE IF CHROMA_HEALTHY /\ REDIS_HEALTHY
               THEN [bat EXCEPT !.pc = "edge_cases",
                                !.executed = @ \cup {"health"},
                                !.succeeded = @ \cup {"health"}]
               ELSE [bat EXCEPT !.WAIT_TIME = @ + 5,
                                !.executed = @ \cup {"health"}]
    /\ UNCHANGED << web, progs, hist, parse, tracker >>

\* Step 3/5: backend\test_edge_cases.py is run if it exists, else the step is
\* skipped with a warning. A non-zero exit code goes to :cleanup.
EdgeCases ==
    /\ bat.pc = "edge_cases"
    /\ \E ok \in BOOLEAN :
        bat' = IF ~bat.edgeScript
               THEN [bat EXCEPT !.pc = "performance"]
               ELSE IF ok
               THEN [bat EXCEPT !.pc = "performance",
                                !.executed = @ \cup {"edge"},
                                !.succeeded = @ \cup {"edge"}]
               ELSE [bat EXCEPT !.pc = "cleanup", !.EXIT_CODE = "1",
                                !.executed = @ \cup {"edge"},
                                !.failed = @ \cup {"edge"}]
    /\ UNCHANGED << web, progs, hist, parse, tracker >>

\* Step 4/5: backend\performance_monitor.py, in the same way.
Performance ==
    /\ bat.pc = "performance"
    /\ \E ok \in BOOLEAN :
        bat' = IF ~bat.perfScript
               THEN [bat EXCEPT !.pc = "failover"]
               ELSE IF ok
               THEN [bat EXCEPT !.pc = "failover",
                                !.executed = @ \cup {"performance"},
                                !.succeeded = @ \cup {"performance"}]
               ELSE [bat EXCEPT !.pc = "cleanup", !.EXIT_CODE = "1",
                                !.executed = @ \cup {"performance"},
                                !.failed = @ \cup {"performance"}]
    /\ UNCHANGED << web, progs, hist, parse, tracker >>

\* Step 5/5: three lines are echoed; no command is run.
Failover ==
    /\ bat.pc = "failover"
    /\ bat' = [bat EXCEPT !.pc = "report"]
    /\ UNCHANGED << web, progs, hist, parse, tracker >>

\* The summary on the console and in the log file: five fixed [PASS] lines, five
\* fixed PASSED lines, and an overall status that depends on EXIT_CODE.
Report ==
    /\ bat.pc = "report"
    /\ bat' = [bat EXCEPT !.pc = "cleanup",
                          !.console = {"preflight", "mock", "edge", "performance", "failover"},
                          !.overall = IF bat.EXIT_CODE # "undefined" THEN "FAILED" ELSE "PASSED",
                          !.log = {"preflight", "health", "edge", "performance", "failover"}]
    /\ UNCHANGED << web, progs, hist, parse, tracker >>

\* :cleanup: docker-compose down; its failure is only a warning.
cleanup ==
    /\ bat.pc = "cleanup"
    /\ bat' = [bat EXCEPT !.pc = "restore"]
    /\ UNCHANGED << web, progs, hist, parse, tracker >>

\* :restore: .env.backup is copied over .env and deleted, if it exists; the script
\* exits with EXIT_CODE, or with 0 when EXIT_CODE is not defined.
RestoreEnv ==
    /\ bat.pc = "restore"
    /\ bat' = [bat EXCEPT !.pc = "done",
                          !.env = IF bat.backup # "absent" THEN bat.backup ELSE @,
                          !.backup = "absent",
                          !.exit = IF bat.EXIT_CODE # "undefined" THEN bat.EXIT_CODE ELSE "0"]
    /\ UNCHANGED << web, progs, hist, parse, tracker >>

TestNext ==
    \/ EnvTestMissing
    \/ SwitchEnv
    \/ PreFlight
    \/ ComposeUp
    \/ healthcheck_loop
    \/ EdgeCases
    \/ Performance
    \/ Failover
    \/ Report
    \/ cleanup
    \/ RestoreEnv

TestSpec == TestInit /\ [][TestNext]_vars

\* C21: when the test script has switched to the test environment and has exited,
\* .env is what it was before the run: the original content, or absent.
C21_EnvLeftAsFound ==
    (bat.switched /\ bat.pc = "done") => bat.env = bat.env0

\* With a .env before the run (a stale .env.backup or not), the original
\* content is back on every exit path.
C21_ExistingEnvRestored ==
    (bat.switched /\ bat.pc = "done" /\ bat.env0 # "absent") => bat.env = bat.env0

\* C22: every step the script reports as passed, on the console or in the log
\* file, was executed and succeeded.
C22_PassedMeansRanAndSucceeded ==
    \A s \in bat.console \cup bat.log : s \in bat.executed /\ s \in bat.succeeded

\* A step that failed is never reported as passed, and a run with a failed step
\* does not exit with code 0.
C22_FailedStepNeverPassed ==
    /\ \A s \in bat.console \cup bat.log : s \notin bat.failed
    /\ (bat.pc = "done" /\ bat.failed # {}) => bat.exit = "1"


\* ------------------------------------------------ app.js: brief history
\* addToHistory keeps this many entries.
HistoryLimit == 50

\* Briefs added to the history in one run of the model.
MaxAdds == 3

\* Array.prototype.slice(0, n).
slice0(s, n) == SubSeq(s, 1, IF Len(s) < n THEN Len(s) ELSE n)

\* JSON.stringify of a history: per entry the text of its fields, in order.
stringify(h) == [i \in 1..Len(h) |-> << "id", h[i].id, "strategy", h[i].strategy, "date", h[i].date >>]

\* JSON.parse of such a text.
JSONparse(t) == [i \in 1..Len(t) |-> [id |-> t[i][2], strategy |-> t[i][4], date |-> t[i][6]]]

\* A history addToHistory wrote in an earlier session: n entries, newest first.
StoredHistory(n) == [i \in 1..n |-> [id |-> 0 - i, strategy |-> "support", date |-> 0]]

Reverse(s) == [i \in 1..Len(s) |-> s[Len(s) + 1 - i]]

\* The page is about to load; localStorage has no lexicon_history item or one
\* written by addToHistory before.
HistInit ==
    /\ WebInit("progress_update")
    /\ ProgsIdle
    /\ bat = NoBat
    /\ parse = NoParse
    /\ tracker = NoTracker
    /\ \E present \in BOOLEAN, n \in 0..HistoryLimit :
        /\ ~present => n = 0
        /\ hist = [NoHist EXCEPT !.pc = "loading",
                                 !.storage = [present |-> present,
                                              value |-> stringify(StoredHistory(n))],
                                 !.stored0 = StoredHistory(n)]

\* initializeApp on DOMContentLoaded.
initializeApp ==
    /\ hist.pc = "loading"
    /\ hist' = [hist EXCEPT !.pc = "ready",
                            !.briefHistory = IF hist.storage.present
                                             THEN JSONparse(hist.storage.value)
                                             ELSE @]
    /\ UNCHANGED << web, progs, bat, parse, tracker >>

\* The same with the oldest entries kept instead of the newest.
addToHistoryKeepsOldest(briefData) ==
    /\ hist.pc = "ready"
    /\ Len(hist.added) < MaxAdds
    /\ LET entry == [id |-> briefData.id, strategy |-> briefData.strategy, date |-> hist.now + 1]
           unshifted == << entry >> \o hist.briefHistory
           kept == IF Len(unshifted) > HistoryLimit THEN Tail(unshifted) ELSE unshifted
       IN  hist' = [hist EXCEPT !.briefHistory = kept,
                                !.storage = [present |-> TRUE, value |-> stringify(kept)],
                                !.added = Append(@, entry),
                                !.now = @ + 1]
    /\ UNCHANGED << web, progs, bat, parse, tracker >>

\* addToHistory(briefData): unshift, slice(0, 50), save to localStorage.
addToHistory(briefData) ==
    /\ hist.pc = "ready"
    /\ Len(hist.added) < MaxAdds
    /\ LET entry == [id |-> briefData.id, strategy |-> briefData.strategy, date |-> hist.now + 1]
           unshifted == << entry >> \o hist.briefHistory
           kept == slice0(unshifted, HistoryLimit)
       IN  hist' = [hist EXCEPT !.briefHistory = kept,
                                !.storage = [present |-> TRUE, value |-> stringify(kept)],
                                !.added = Append(@, entry),
                                !.now = @ + 1]
    /\ UNCHANGED << web, progs, bat, parse, tracker >>

\* handleBriefComplete of a successful brief hands its metadata to addToHistory.
HistoryAdd ==
    \E strategy \in {"support", "challenge"} :
        addToHistory([id |-> Len(hist.added) + 1, strategy |-> strategy])

\* The page is loaded again: the script starts over with briefHistory = [].
Reload ==
    /\ hist.pc = "ready"
    /\ hist' = [hist EXCEPT !.pc = "loading", !.briefHistory = << >>]
    /\ UNCHANGED << web, progs, bat, parse, tracker >>

HistNext == initializeApp \/ HistoryAdd \/ Reload

HistSpec == HistInit /\ [][HistNext]_vars

\* C23: once the page is loaded, briefHistory holds at most 50 entries, and they
\* are the most recently added briefs, newest first: the entries given to
\* addToHistory in reverse order, followed by the stored history, cut at 50.
C23_HistoryIsNewestFifty ==
    hist.pc = "ready" =>
        /\ Len(hist.briefHistory) <= HistoryLimit
        /\ hist.briefHistory = slice0(Reverse(hist.added) \o hist.stored0, HistoryLimit)

\* Briefs were added to a full history: older entries have been dropped.
C23_OldestDropped ==
    /\ hist.pc = "ready"
    /\ Len(hist.added) >= 2
    /\ Len(hist.stored0) + Len(hist.added) > HistoryLimit
    /\ Len(hist.briefHistory) = HistoryLimit
    /\ hist.briefHistory[1] = hist.added[Len(hist.added)]


\* ------------------------------------------- errorHandler.ts: parseApiError
\* HTTP statuses of the responses handed to parseApiError: those the switch names
\* and two it does not.
Statuses == {400, 401, 403, 404, 413, 418, 429, 500, 502, 503, 504}

\* error_code values of a response body: none, three known codes, an unknown one
\* and a name every JavaScript object answers for.
BodyCodes == {"", "GENERATION_FAILED", "RATE_LIMIT_EXCEEDED", "INVALID_API_KEY",
              "NOT_A_CODE", "constructor"}

BodyMessages == {"", "Invalid API key", "Brief type is required"}

AxiosCodes == {"", "ECONNABORTED", "ERR_NETWORK", "ERR_BAD_REQUEST"}

Messages == {"", "timeout of 0ms exceeded", "Network Error"}

\* The error objects: with a response (status and a body that is an object or
\* null), or without one.
Errors ==
    { [MkError(TRUE, st, ec, dm, c, msg, onl) EXCEPT !.dataNull = dn] :
        st \in Statuses, ec \in BodyCodes, dm \in BodyMessages,
        c \in {"ERR_BAD_REQUEST"}, msg \in {"Request failed"}, onl \in {TRUE},
        dn \in {FALSE} }
    \cup
    { [MkError(TRUE, st, "", "", c, msg, onl) EXCEPT !.dataNull = TRUE] :
        st \in Statuses, c \in {"ERR_BAD_REQUEST"}, msg \in {"Request failed"},
        onl \in {TRUE} }
    \cup
    { MkError(FALSE, 0, "", "", c, msg, onl) :
        c \in AxiosCodes, msg \in Messages, onl \in BOOLEAN }

\* A request has failed with one of the error objects.
ParseInit ==
    /\ WebInit("progress_update")
    /\ ProgsIdle
    /\ bat = NoBat
    /\ hist = NoHist
    /\ tracker = NoTracker
    /\ \E error \in Errors : parse = [NoParse EXCEPT !.pc = "thrown", !.error = error]

\* The catch block hands the error to parseApiError.
Parse ==
    /\ parse.pc = "thrown"
    /\ parse' = [parse EXCEPT !.pc = "parsed", !.result = parseApiError(parse.error)]
    /\ UNCHANGED << web, progs, bat, hist, tracker >>

ParseNext == Parse

ParseSpec == ParseInit /\ [][ParseNext]_vars

\* The code the precedence of C24 gives for an error object: the set of codes it
\* allows (two for a 400).
ExpectedCodes(error) ==
    IF error.hasResponse THEN
        IF ~error.dataNull /\ error.error_code \in ErrorCodes THEN {error.error_code}
        ELSE CASE error.status = 400 -> {"INVALID_INPUT", "INVALID_API_KEY"}
               [] error.status = 401 -> {"INVALID_API_KEY"}
               [] error.status = 403 -> {"EXPIRED_API_KEY"}
               [] error.status = 413 -> {"DOCUMENT_TOO_LARGE"}
               [] error.status = 429 -> {"RATE_LIMIT_EXCEEDED"}
               [] error.status \in {500, 502, 503} -> {"SERVER_ERROR"}
               [] error.status = 504 -> {"GENERATION_TIMEOUT"}
               [] OTHER -> {"UNKNOWN_ERROR"}
    ELSE IF error.code = "ECONNABORTED" \/ error.message \in TimeoutTexts
         THEN {"GENERATION_TIMEOUT"}
    ELSE IF error.code = "ERR_NETWORK" \/ ~error.onLine
         THEN {"NETWORK_ERROR"}
    ELSE {"UNKNOWN_ERROR"}

\* C24: for every error object parseApiError returns an ApiError whose code is in
\* ErrorCodes and is the one the precedence gives: a recognised error_code of the
\* body, else the code of the HTTP status, else timeout before network error.
C24_TotalWithFixedPrecedence ==
    parse.pc = "parsed" =>
        /\ parse.result.name = "ApiError"
        /\ parse.result.code \in ErrorCodes
        /\ parse.result.code \in ExpectedCodes(parse.error)

\* For a response whose body is an object and whose error_code, if any, is not
\* the name of an inherited property, the precedence holds.
C24_PrecedenceOnPlainBodies ==
    (parse.pc = "parsed" /\ ~parse.error.dataNull
        /\ parse.error.error_code \notin InheritedKeys) =>
        /\ parse.result.name = "ApiError"
        /\ parse.result.code \in ErrorCodes
        /\ parse.result.code \in ExpectedCodes(parse.error)


\* --------------------------------------------- ProgressTracker (React client)
\* Strings are sequences of characters here, so that toLowerCase and includes
\* are computed as JavaScript computes them.

\* The rows of the tracker, in order; row i of the code is TrackerStages[i + 1].
TrackerStages ==
    << [name |-> << "D", "o", "c", "u", "m", "e", "n", "t", " ", "U", "p", "l", "o", "a", "d" >>,
        agent |-> "System"],
       [name |-> << "A", "n", "o", "n", "y", "m", "i", "z", "a", "t", "i", "o", "n", " ", "&", " ", "A", "n", "a", "l", "y", "s", "i", "s" >>,
        agent |-> "Claude Opus 4"],
       [name |-> << "L", "e", "g", "a", "l", " ", "R", "e", "s", "e", "a", "r", "c", "h" >>,
        agent |-> "o3-pro-deep-research"],
       [name |-> << "S", "c", "i", "e", "n", "t", "i", "f", "i", "c", " ", "R", "e", "s", "e", "a", "r", "c", "h" >>,
        agent |-> "o4-mini-deep-research"],
       [name |-> << "B", "r", "i", "e", "f", " ", "W", "r", "i", "t", "i", "n", "g" >>,
        agent |-> "gpt-4.5-research-preview"],
       [name |-> << "F", "i", "n", "a", "l", " ", "R", "e", "v", "i", "e", "w", " ", "&", " ", "P", "o", "l", "i", "s", "h" >>,
        agent |-> "Gemini 2.5 Pro"] >>

\* The values BriefGenerationStatus.stage can carry, spelled out.
StageText ==
      "uploading"            :> << "u", "p", "l", "o", "a", "d", "i", "n", "g" >> @@
      "anonymization"        :> << "a", "n", "o", "n", "y", "m", "i", "z", "a", "t", "i", "o", "n" >> @@
      "strategic_analysis"   :> << "s", "t", "r", "a", "t", "e", "g", "i", "c", "_", "a", "n", "a", "l", "y", "s", "i", "s" >> @@
      "legal_research"       :> << "l", "e", "g", "a", "l", "_", "r", "e", "s", "e", "a", "r", "c", "h" >> @@
      "scientific_research"  :> << "s", "c", "i", "e", "n", "t", "i", "f", "i", "c", "_", "r", "e", "s", "e", "a", "r", "c", "h" >> @@
      "brief_writing"        :> << "b", "r", "i", "e", "f", "_", "w", "r", "i", "t", "i", "n", "g" >> @@
      "final_review"         :> << "f", "i", "n", "a", "l", "_", "r", "e", "v", "i", "e", "w" >> @@
      "completed"            :> << "c", "o", "m", "p", "l", "e", "t", "e", "d" >> @@
      "error"                :> << "e", "r", "r", "o", "r" >>

\* The stages before the two terminal ones.
NonTerminalStages ==
    {"uploading", "anonymization", "strategic_analysis", "legal_research",
     "scientific_research", "brief_writing", "final_review"}

\* String.prototype.toLowerCase on the characters that occur.
LowerOf == "A" :> "a" @@ "B" :> "b" @@ "D" :> "d" @@ "F" :> "f" @@ "L" :> "l" @@ "P" :> "p" @@ "R" :> "r" @@ "S" :> "s" @@ "U" :> "u" @@ "W" :> "w"

toLowerCase(str) ==
    [i \in 1..Len(str) |-> IF str[i] \in DOMAIN LowerOf THEN LowerOf[str[i]] ELSE str[i]]

\* String.prototype.includes.
includes(str, searchString) ==
    \E i \in 0..(Len(str) - Len(searchString)) :
        SubSeq(str, i + 1, i + Len(searchString)) = searchString

\* Array.prototype.findIndex over the rows: the first index (from 0) whose name
\* includes the stage value, or -1.
currentStageIndex(stage) ==
    LET hits == { i \in 0..(Len(TrackerStages) - 1) :
                    includes(toLowerCase(TrackerStages[i + 1].name),
                             toLowerCase(StageText[stage])) }
    IN  IF hits = {} THEN 0 - 1
        ELSE CHOOSE i \in hits : \A j \in hits : i <= j

\* App has mounted ProgressTracker: generationStatus is not null and not completed.
TrackerInit ==
    /\ WebInit("progress_update")
    /\ ProgsIdle
    /\ bat = NoBat
    /\ hist = NoHist
    /\ parse = NoParse
    /\ tracker = NoTracker

\* ProgressTracker renders a status: every row is active, completed or neither.
Render ==
    \E stage \in NonTerminalStages \cup {"error"},
       progress \in {0, 10, 20, 30, 40, 50, 60, 70, 80, 90, 100},
       currentAgent \in {"System", "Claude Opus 4"} :
        /\ tracker' = [pc |-> "rendered", stage |-> stage, progress |-> progress,
                       currentAgent |-> currentAgent,
                       currentStageIndex |-> currentStageIndex(stage),
                       isActive |-> { index \in 0..(Len(TrackerStages) - 1) :
                                        index = currentStageIndex(stage) },
                       isCompleted |-> { index \in 0..(Len(TrackerStages) - 1) :
                                           index < currentStageIndex(stage) },
                       width |-> progress]
        /\ UNCHANGED << web, progs, bat, hist, parse >>

TrackerNext == Render

TrackerSpec == TrackerInit /\ [][TrackerNext]_vars

\* C25: for every non-terminal stage value, ProgressTracker marks exactly one row
\* as active and every row before it, and no other, as completed.
C25_OneActiveRow ==
    (tracker.pc = "rendered" /\ tracker.stage \in NonTerminalStages) =>
        \E row \in 0..(Len(TrackerStages) - 1) :
            /\ tracker.isActive = {row}
            /\ tracker.isCompleted = { index \in 0..(Len(TrackerStages) - 1) : index < row }

\* For the stage value anonymization the second row is active and the first one
\* completed.
C25_AnonymizationRow ==
    (tracker.pc = "rendered" /\ tracker.stage = "anonymization") =>
        /\ tracker.isActive = {1}
        /\ tracker.isCompleted = {0}


\* ---------------------------------------------------------------------- C26
\* The step emits the brief_complete event of task t.
EmitsComplete(t) == srv[t].state = "running" /\ srv'[t].state \in {"complete", "failed"}

\* The Bootstrap page has handled the brief_complete of task t after the step: the
\* progress panel is hidden and, for a brief, the result is shown.
HandledAfterStep(t) ==
    /\ ~page'.progressShown
    /\ srv'[t].state = "complete" => page'.resultShown

\* C26: the brief_complete event of the Bootstrap page's latest generation, whose
\* POST returned success, is handled when it arrives on the connected socket,
\* before or after the page has processed the POST response.
C26_CompleteHandledEitherOrder ==
    [][\A t \in Cases :
        (/\ CurrentCase("b") = t
         /\ call[t].http = "ok"
         /\ page.socket = "connected"
         /\ EmitsComplete(t)) => HandledAfterStep(t)]_vars

\* When the event arrives while the page holds the task's id in currentBriefTask,
\* it is handled.
C26_HandledAfterResponse ==
    [][\A t \in Cases :
        (/\ page.currentBriefTask = t
         /\ page.socket = "connected"
         /\ EmitsComplete(t)) => HandledAfterStep(t)]_vars

====
